---- MODULE Spec2Model ----
(***************************************************************************)
(* Model of GLTFSDK/Source/ExtensionsKHR.cpp: the extension parse and      *)
(* serialize pipelines (ParseExtensions .. SerializeTextureInfo), the KHR  *)
(* serializer / deserializer registries and the four KHR codecs            *)
(* (PBRSpecularGlossiness, Unlit, DracoMeshCompression, TextureTransform). *)
(*                                                                         *)
(* JSON text is a sequence of tokens, a JSON value is a tree; the writer   *)
(* and the parser convert between the two.  Every fallible function        *)
(* returns a record whose err field is "none" or the kind of the           *)
(* GLTFException thrown.                                                   *)
(***************************************************************************)
EXTENDS Integers, Sequences, FiniteSets, TLC

VARIABLES
    pc,      \* the operation that ran last
    NDEBUG,  \* the build: RAPIDJSON_ASSERT compiled out or not
    doc,     \* the Document the entity is serialized against
    node,    \* the glTFProperty parsed, constructed or decoded
    json,    \* the JSON value handed to the parser
    text,    \* the raw text a codec produced or was given
    out,     \* the members of the JSON object the serializer filled
    rhs,     \* the second Extension of a round trip or a comparison
    eq,      \* the result of IsEqual
    err,     \* "none" or the error the last operation failed with
    calls,   \* the Deserialize calls of the last parse (chains of names)
    invocations  \* the SerializePropertyExtensions invocations of the last serialization

vars == <<pc, NDEBUG, doc, node, json, text, out, rhs, eq, err, calls, invocations>>

----------------------------------------------------------------------------
(* Bounds of the model *)

\* entries of one "extensions" object in the parsed inputs
MaxEntries == 2
\* width of int / uint32_t / unsigned, scaled down from 32
IntBits == 4

IntMax == 2 ^ (IntBits - 1) - 1
IntMin == 0 - 2 ^ (IntBits - 1)
UintMax == 2 ^ IntBits - 1

\* F applied to the value of x, with x evaluated once (a local variable)
Eval(x, F(_)) == CHOOSE y \in {F(v) : v \in {x}} : TRUE

----------------------------------------------------------------------------
(* Extension names and the kinds of glTFProperty *)

PBRSPECULARGLOSSINESS_NAME == "KHR_materials_pbrSpecularGlossiness"
UNLIT_NAME == "KHR_materials_unlit"
DRACOMESHCOMPRESSION_NAME == "KHR_draco_mesh_compression"
TEXTURETRANSFORM_NAME == "KHR_texture_transform"

\* the Extension subclasses (each is a glTFProperty too)
Variants == {"PBRSpecularGlossiness", "Unlit", "DracoMeshCompression", "TextureTransform"}

----------------------------------------------------------------------------
(* JSON values (rapidjson::Value) and JSON text *)

JInt(i) == [t |-> "int", n |-> i, s |-> "", m |-> <<>>]
JDbl(d) == [t |-> "dbl", n |-> d, s |-> "", m |-> <<>>]
JStr(x) == [t |-> "str", n |-> 0, s |-> x, m |-> <<>>]
JArr(items) == [t |-> "arr", n |-> 0, s |-> "", m |-> items]
JObj(members) == [t |-> "obj", n |-> 0, s |-> "", m |-> members]
\* one member of an object (name, value); an array element has the name ""
Member(name, value) == [name |-> name, value |-> value]
Elem(value) == Member("", value)

IsObject(v) == v.t = "obj"
IsNumber(v) == v.t \in {"int", "dbl"}
\* rapidjson's kIntFlag / kUintFlag of an integer literal
IsInt(v) == v.t = "int" /\ IntMin <= v.n /\ v.n <= IntMax
IsUint(v) == v.t = "int" /\ 0 <= v.n /\ v.n <= UintMax

\* position of the first member called name, 0 when there is none
RECURSIVE FindFrom(_, _, _)
FindFrom(m, name, i) ==
    IF i > Len(m) THEN 0
    ELSE IF m[i].name = name THEN i
    ELSE FindFrom(m, name, i + 1)

FindMember(v, name) == FindFrom(v.m, name, 1)
HasMember(v, name) == FindMember(v, name) # 0
MemberValue(v, name) == v.m[FindMember(v, name)].value

Tok(k, n, s) == [k |-> k, n |-> n, s |-> s]
Punct(c) == Tok(c, 0, "")

\* rapidjson::Writer: the compact text of a value
RECURSIVE Write(_)
RECURSIVE WriteMembers(_, _, _)
WriteMembers(m, i, named) ==
    IF i > Len(m) THEN <<>>
    ELSE (IF i > 1 THEN <<Punct(",")>> ELSE <<>>)
         \o (IF named THEN <<Tok("str", 0, m[i].name), Punct(":")>> ELSE <<>>)
         \o Write(m[i].value)
         \o WriteMembers(m, i + 1, named)

Write(v) ==
    CASE v.t = "int" -> <<Tok("int", v.n, "")>>
      [] v.t = "dbl" -> <<Tok("dbl", v.n, "")>>
      [] v.t = "str" -> <<Tok("str", 0, v.s)>>
      [] v.t = "arr" -> <<Punct("[")>> \o WriteMembers(v.m, 1, FALSE) \o <<Punct("]")>>
      [] v.t = "obj" -> <<Punct("{")>> \o WriteMembers(v.m, 1, TRUE) \o <<Punct("}")>>

\* Serialize(const rapidjson::Value&): the raw text of a value
Serialize(v) == Write(v)

\* rapidjson's reader: the value starting at token i and the position after it
ParseFail == [ok |-> FALSE, v |-> JInt(0), i |-> 0]
RECURSIVE ParseValue(_, _)
RECURSIVE ParseMembers(_, _, _, _)
RECURSIVE ParseElements(_, _, _, _)

ParseValue(toks, i) ==
    IF i > Len(toks) THEN ParseFail
    ELSE LET tk == toks[i] IN
         CASE tk.k = "int" -> [ok |-> TRUE, v |-> JInt(tk.n), i |-> i + 1]
           [] tk.k = "dbl" -> [ok |-> TRUE, v |-> JDbl(tk.n), i |-> i + 1]
           [] tk.k = "str" -> [ok |-> TRUE, v |-> JStr(tk.s), i |-> i + 1]
           [] tk.k = "{" -> ParseMembers(toks, i + 1, <<>>, TRUE)
           [] tk.k = "[" -> ParseElements(toks, i + 1, <<>>, TRUE)
           [] OTHER -> ParseFail

ParseMembers(toks, i, acc, first) ==
    IF i > Len(toks) THEN ParseFail
    ELSE IF first /\ toks[i].k = "}" THEN [ok |-> TRUE, v |-> JObj(acc), i |-> i + 1]
    ELSE IF i + 1 > Len(toks) \/ toks[i].k # "str" \/ toks[i + 1].k # ":" THEN ParseFail
    ELSE Eval(ParseValue(toks, i + 2), LAMBDA r :
         IF ~r.ok \/ r.i > Len(toks) THEN ParseFail
         ELSE Eval(Append(acc, Member(toks[i].s, r.v)), LAMBDA acc2 :
              IF toks[r.i].k = "}" THEN [ok |-> TRUE, v |-> JObj(acc2), i |-> r.i + 1]
              ELSE IF toks[r.i].k = "," THEN ParseMembers(toks, r.i + 1, acc2, FALSE)
              ELSE ParseFail))

ParseElements(toks, i, acc, first) ==
    IF i > Len(toks) THEN ParseFail
    ELSE IF first /\ toks[i].k = "]" THEN [ok |-> TRUE, v |-> JArr(acc), i |-> i + 1]
    ELSE Eval(ParseValue(toks, i), LAMBDA r :
         IF ~r.ok \/ r.i > Len(toks) THEN ParseFail
         ELSE Eval(Append(acc, Elem(r.v)), LAMBDA acc2 :
              IF toks[r.i].k = "]" THEN [ok |-> TRUE, v |-> JArr(acc2), i |-> r.i + 1]
              ELSE IF toks[r.i].k = "," THEN ParseElements(toks, r.i + 1, acc2, FALSE)
              ELSE ParseFail))

\* RapidJsonUtils::CreateDocumentFromString: the whole text must be one value
CreateDocumentFromString(s) ==
    Eval(ParseValue(s, 1), LAMBDA r :
        IF r.ok /\ r.i = Len(s) + 1 THEN [err |-> "none", val |-> r.v]
        ELSE [err |-> "ParseError", val |-> JInt(0)])

----------------------------------------------------------------------------
(* glTFProperty: extras, unregistered extensions, registered extensions *)

EmptyMap == [x \in {} |-> <<>>]

\* std::map / std::unordered_map emplace: the first value of a key stays
Emplace(f, k, v) ==
    IF k \in DOMAIN f THEN f
    ELSE [x \in DOMAIN f \cup {k} |-> IF x = k THEN v ELSE f[x]]

\* insert or replace
Put(f, k, v) == [x \in DOMAIN f \cup {k} |-> IF x = k THEN v ELSE f[x]]

\* a default-constructed glTFProperty of the given runtime kind
Property(kind) ==
    [kind |-> kind, extras |-> <<>>, extensions |-> EmptyMap, registered |-> EmptyMap]

\* glTFProperty::SetExtension: at most one instance per Extension subclass
SetExtension(property, extension) ==
    [property EXCEPT !.registered = Put(@, extension.kind, extension)]

HasUnregisteredExtension(property, name) == name \in DOMAIN property.extensions

\* TextureInfo(): no texture, texCoord 0
NewTextureInfo ==
    [kind |-> "TextureInfo", extras |-> <<>>, extensions |-> EmptyMap,
     registered |-> EmptyMap, textureId |-> "", texCoord |-> 0]

----------------------------------------------------------------------------
(* The deserializer registry *)

Handler(name, owner, variant) == [name |-> name, owner |-> owner, variant |-> variant]

\* GetKHRExtensionDeserializer with the TextureTransform codec registered for
\* a TextureTransform owner as well
GetKHRExtensionDeserializerNested ==
    { Handler(PBRSPECULARGLOSSINESS_NAME, "Material", "PBRSpecularGlossiness"),
      Handler(UNLIT_NAME, "Material", "Unlit"),
      Handler(DRACOMESHCOMPRESSION_NAME, "MeshPrimitive", "DracoMeshCompression"),
      Handler(TEXTURETRANSFORM_NAME, "TextureInfo", "TextureTransform"),
      Handler(TEXTURETRANSFORM_NAME, "TextureTransform", "TextureTransform") }

\* one entry per AddHandler<TExt, TProp>(name, codec) call
GetKHRExtensionDeserializer ==
    { Handler(PBRSPECULARGLOSSINESS_NAME, "Material", "PBRSpecularGlossiness"),
      Handler(UNLIT_NAME, "Material", "Unlit"),
      Handler(DRACOMESHCOMPRESSION_NAME, "MeshPrimitive", "DracoMeshCompression"),
      Handler(TEXTURETRANSFORM_NAME, "TextureInfo", "TextureTransform") }

\* HasHandler(name, property): an entry for the name and the runtime kind of property
HasHandler(ed, name, property) ==
    \E h \in ed : h.name = name /\ h.owner = property.kind

\* HasHandler(name): an entry for the name on any owner kind
HasHandlerName(ed, name) == \E h \in ed : h.name = name

----------------------------------------------------------------------------
(* Results of the fallible parse functions: the error, the value built so  *)
(* far, and the Deserialize calls made, each as the chain of calls from the *)
(* outermost one down to it                                                *)

Ok(val, cs) == [err |-> "none", val |-> val, calls |-> cs]
Fail(e, val, cs) == [err |-> e, val |-> val, calls |-> cs]

\* one Deserialize call: the extension name and the kind of the property
Call(name, property) == [name |-> name, owner |-> property.kind]

\* the chains of a nested parse, seen from the call that led to it
Under(call, cs) == [i \in 1..Len(cs) |-> <<call>> \o cs[i]]

\* Value::GetUint / Get<uint32_t>: RAPIDJSON_ASSERT(kUintFlag), then the low
\* bits of the stored integer.  With the assertion compiled out (NDEBUG) a
\* value without the flag is reinterpreted.
GetUint(v) ==
    IF IsUint(v) THEN [err |-> "none", val |-> v.n]
    ELSE IF NDEBUG THEN [err |-> "none", val |-> v.n % (2 ^ IntBits)]
    ELSE [err |-> "AssertionFailure", val |-> 0]

\* static_cast<float>(GetDouble()): the numbers of the model are all exactly
\* representable as float, so the narrowing keeps the value
GetFloat(v) == v.n

\* GetMemberValueOrDefault<T>(v, name, default) for a numeric T
GetMemberValueOrDefault(v, name, default) ==
    IF HasMember(v, name) THEN MemberValue(v, name).n ELSE default

\* GetMemberValueAsString<uint32_t>(v, name): "" when the member is missing
GetMemberValueAsString(v, name) ==
    IF HasMember(v, name)
    THEN Eval(GetUint(MemberValue(v, name)), LAMBDA u :
         [err |-> u.err, val |-> IF u.err = "none" THEN ToString(u.val) ELSE ""])
    ELSE [err |-> "none", val |-> ""]

\* the floats of a JSON array, in order
FloatsOf(arr) == [i \in 1..Len(arr.m) |-> GetFloat(arr.m[i].value)]

----------------------------------------------------------------------------
(* The extension instances *)

\* PBRSpecularGlossiness(): the defaults of its members
NewPBRSpecularGlossiness ==
    [kind |-> "PBRSpecularGlossiness", extras |-> <<>>, extensions |-> EmptyMap,
     registered |-> EmptyMap,
     diffuseFactor |-> <<1, 1, 1, 1>>, diffuseTexture |-> NewTextureInfo,
     specularFactor |-> <<1, 1, 1>>, glossinessFactor |-> 1,
     specularGlossinessTexture |-> NewTextureInfo]

NewUnlit == Property("Unlit")

NewDracoMeshCompression ==
    [kind |-> "DracoMeshCompression", extras |-> <<>>, extensions |-> EmptyMap,
     registered |-> EmptyMap, bufferViewId |-> "", attributes |-> EmptyMap]

\* TextureTransform(): the defaults of its members
NewTextureTransform ==
    [kind |-> "TextureTransform", extras |-> <<>>, extensions |-> EmptyMap,
     registered |-> EmptyMap,
     offset |-> <<0, 0>>, rotation |-> 0, scale |-> <<1, 1>>, texCoord |-> 0]

----------------------------------------------------------------------------
(* The parse pipeline *)

RECURSIVE ParseExtensions(_, _, _)

ParseExtras(v, property) ==
    IF HasMember(v, "extras")
    THEN [property EXCEPT !.extras = Serialize(MemberValue(v, "extras"))]
    ELSE property

ParseProperty(v, property, ed) ==
    Eval(ParseExtensions(v, property, ed), LAMBDA r :
        IF r.err # "none" THEN r
        ELSE Ok(ParseExtras(v, r.val), r.calls))

ParseTextureInfo(v, textureInfo, ed) ==
    IF ~HasMember(v, "index") THEN Fail("MissingRequiredMember", textureInfo, <<>>)
    ELSE Eval(GetUint(MemberValue(v, "index")), LAMBDA u :
         IF u.err # "none" THEN Fail(u.err, textureInfo, <<>>)
         ELSE ParseProperty(v,
                  [textureInfo EXCEPT !.textureId = ToString(u.val),
                                      !.texCoord = GetMemberValueOrDefault(v, "texCoord", 0)],
                  ed))

\* a texture member of PBRSpecularGlossiness, parsed when present
ParseOptionalTexture(sit, name, textureInfo, ed) ==
    IF HasMember(sit, name)
    THEN ParseTextureInfo(MemberValue(sit, name), textureInfo, ed)
    ELSE Ok(textureInfo, <<>>)

DeserializePBRSpecGloss(jsonText, ed) ==
    Eval(CreateDocumentFromString(jsonText), LAMBDA d :
    IF d.err # "none" THEN Fail(d.err, NewPBRSpecularGlossiness, <<>>)
    ELSE
    Eval([NewPBRSpecularGlossiness EXCEPT
            !.diffuseFactor =
                IF HasMember(d.val, "diffuseFactor")
                THEN SubSeq(FloatsOf(MemberValue(d.val, "diffuseFactor")), 1, 4) ELSE @,
            !.specularFactor =
                IF HasMember(d.val, "specularFactor")
                THEN SubSeq(FloatsOf(MemberValue(d.val, "specularFactor")), 1, 3) ELSE @,
            !.glossinessFactor = GetMemberValueOrDefault(d.val, "glossinessFactor", 1)],
         LAMBDA specGloss :
    Eval(ParseOptionalTexture(d.val, "diffuseTexture", specGloss.diffuseTexture, ed),
         LAMBDA dt :
    IF dt.err # "none" THEN Fail(dt.err, specGloss, dt.calls)
    ELSE
    Eval(ParseOptionalTexture(d.val, "specularGlossinessTexture",
                              specGloss.specularGlossinessTexture, ed),
         LAMBDA sgt :
    IF sgt.err # "none" THEN Fail(sgt.err, specGloss, dt.calls \o sgt.calls)
    ELSE
    Eval(ParseProperty(d.val,
                       [specGloss EXCEPT !.diffuseTexture = dt.val,
                                         !.specularGlossinessTexture = sgt.val],
                       ed),
         LAMBDA p : [p EXCEPT !.calls = dt.calls \o sgt.calls \o @])))))

DeserializeUnlit(jsonText, ed) ==
    Eval(CreateDocumentFromString(jsonText), LAMBDA d :
        IF d.err # "none" THEN Fail(d.err, NewUnlit, <<>>)
        ELSE ParseProperty(d.val, NewUnlit, ed))

\* the loop over the members of "attributes"
RECURSIVE ParseAttributes(_, _, _)
ParseAttributes(m, i, attributes) ==
    IF i > Len(m) THEN [err |-> "none", val |-> attributes]
    ELSE IF ~IsInt(m[i].value) THEN [err |-> "SchemaViolation", val |-> attributes]
    ELSE Eval(GetUint(m[i].value), LAMBDA u :
         IF u.err # "none" THEN [err |-> u.err, val |-> attributes]
         ELSE Eval(Emplace(attributes, m[i].name, u.val), LAMBDA a2 :
              ParseAttributes(m, i + 1, a2)))

DeserializeDracoMeshCompression(jsonText, ed) ==
    Eval(CreateDocumentFromString(jsonText), LAMBDA d :
    IF d.err # "none" THEN Fail(d.err, NewDracoMeshCompression, <<>>)
    ELSE
    Eval(GetMemberValueAsString(d.val, "bufferView"), LAMBDA bv :
    IF bv.err # "none" THEN Fail(bv.err, NewDracoMeshCompression, <<>>)
    ELSE
    Eval(IF ~HasMember(d.val, "attributes")
         THEN [err |-> "none", val |-> EmptyMap]
         ELSE IF ~IsObject(MemberValue(d.val, "attributes"))
         THEN [err |-> "SchemaViolation", val |-> EmptyMap]
         ELSE ParseAttributes(MemberValue(d.val, "attributes").m, 1, EmptyMap),
         LAMBDA at :
    IF at.err # "none" THEN Fail(at.err, NewDracoMeshCompression, <<>>)
    ELSE ParseProperty(d.val,
                       [NewDracoMeshCompression EXCEPT !.bufferViewId = bv.val,
                                                       !.attributes = at.val],
                       ed))))

DeserializeTextureTransform(jsonText, ed) ==
    Eval(CreateDocumentFromString(jsonText), LAMBDA d :
    IF d.err # "none" THEN Fail(d.err, NewTextureTransform, <<>>)
    ELSE IF \/ HasMember(d.val, "offset") /\ Len(MemberValue(d.val, "offset").m) # 2
            \/ HasMember(d.val, "scale") /\ Len(MemberValue(d.val, "scale").m) # 2
    THEN Fail("SchemaViolation", NewTextureTransform, <<>>)
    ELSE
    Eval([NewTextureTransform EXCEPT
            !.offset = IF HasMember(d.val, "offset")
                       THEN FloatsOf(MemberValue(d.val, "offset")) ELSE @,
            !.rotation = GetMemberValueOrDefault(d.val, "rotation", 0),
            !.scale = IF HasMember(d.val, "scale")
                      THEN FloatsOf(MemberValue(d.val, "scale")) ELSE @,
            !.texCoord = GetMemberValueOrDefault(d.val, "texCoord", 0)],
         LAMBDA textureTransform : ParseProperty(d.val, textureTransform, ed)))

\* ExtensionDeserializer::Deserialize: the codec registered for the name and
\* the runtime kind of the property, applied to the raw text
Deserialize(ed, extensionPair, property) ==
    IF ~HasHandler(ed, extensionPair.name, property)
    THEN Fail("NoHandler", property, <<>>)
    ELSE Eval(CHOOSE h \in ed : h.name = extensionPair.name /\ h.owner = property.kind,
         LAMBDA h :
            CASE h.variant = "PBRSpecularGlossiness" ->
                     DeserializePBRSpecGloss(extensionPair.value, ed)
              [] h.variant = "Unlit" -> DeserializeUnlit(extensionPair.value, ed)
              [] h.variant = "DracoMeshCompression" ->
                     DeserializeDracoMeshCompression(extensionPair.value, ed)
              [] h.variant = "TextureTransform" ->
                     DeserializeTextureTransform(extensionPair.value, ed))

\* the loop of ParseExtensions over the entries of the "extensions" object,
\* from entry i on
RECURSIVE ParseEntries(_, _, _, _, _)

\* ParseEntries with the raw pair stored for every entry, dispatched or not
ParseEntriesStoreAll(m, i, property, ed, cs) ==
    IF i > Len(m) THEN Ok(property, cs)
    ELSE
    Eval([name |-> m[i].name, value |-> Serialize(m[i].value)], LAMBDA extensionPair :
    Eval([property EXCEPT
            !.extensions = Emplace(@, extensionPair.name, extensionPair.value)],
         LAMBDA stored :
    IF HasHandler(ed, extensionPair.name, property)
       \/ HasHandlerName(ed, extensionPair.name)
    THEN Eval(Deserialize(ed, extensionPair, property), LAMBDA r :
         Eval(cs \o <<<<Call(extensionPair.name, property)>>>>
                 \o Under(Call(extensionPair.name, property), r.calls),
              LAMBDA cs2 :
         IF r.err # "none" THEN Fail(r.err, property, cs2)
         ELSE Eval(SetExtension(stored, r.val), LAMBDA node2 :
              ParseEntries(m, i + 1, node2, ed, cs2))))
    ELSE ParseEntries(m, i + 1, stored, ed, cs)))

\* ParseEntries without the lenient pre-check: a name with no handler for
\* the kind of the property is stored as raw text
ParseEntriesDegrade(m, i, property, ed, cs) ==
    IF i > Len(m) THEN Ok(property, cs)
    ELSE
    Eval([name |-> m[i].name, value |-> Serialize(m[i].value)], LAMBDA extensionPair :
    IF HasHandler(ed, extensionPair.name, property)
    THEN Eval(Deserialize(ed, extensionPair, property), LAMBDA r :
         Eval(cs \o <<<<Call(extensionPair.name, property)>>>>
                 \o Under(Call(extensionPair.name, property), r.calls),
              LAMBDA cs2 :
         IF r.err # "none" THEN Fail(r.err, property, cs2)
         ELSE Eval(SetExtension(property, r.val), LAMBDA node2 :
              ParseEntries(m, i + 1, node2, ed, cs2))))
    ELSE Eval([property EXCEPT
                 !.extensions = Emplace(@, extensionPair.name, extensionPair.value)],
              LAMBDA node2 : ParseEntries(m, i + 1, node2, ed, cs)))

\* ParseEntries with operator[] in place of emplace: the last occurrence of
\* a name wins
ParseEntriesOverwrite(m, i, property, ed, cs) ==
    IF i > Len(m) THEN Ok(property, cs)
    ELSE
    Eval([name |-> m[i].name, value |-> Serialize(m[i].value)], LAMBDA extensionPair :
    IF HasHandler(ed, extensionPair.name, property)
       \/ HasHandlerName(ed, extensionPair.name)
    THEN Eval(Deserialize(ed, extensionPair, property), LAMBDA r :
         Eval(cs \o <<<<Call(extensionPair.name, property)>>>>
                 \o Under(Call(extensionPair.name, property), r.calls),
              LAMBDA cs2 :
         IF r.err # "none" THEN Fail(r.err, property, cs2)
         ELSE Eval(SetExtension(property, r.val), LAMBDA node2 :
              ParseEntries(m, i + 1, node2, ed, cs2))))
    ELSE Eval([property EXCEPT
                 !.extensions = Put(@, extensionPair.name, extensionPair.value)],
              LAMBDA node2 : ParseEntries(m, i + 1, node2, ed, cs)))

ParseEntries(m, i, property, ed, cs) ==
    IF i > Len(m) THEN Ok(property, cs)
    ELSE
    Eval([name |-> m[i].name, value |-> Serialize(m[i].value)], LAMBDA extensionPair :
    IF HasHandler(ed, extensionPair.name, property)
       \/ HasHandlerName(ed, extensionPair.name)
    THEN Eval(Deserialize(ed, extensionPair, property), LAMBDA r :
         Eval(cs \o <<<<Call(extensionPair.name, property)>>>>
                 \o Under(Call(extensionPair.name, property), r.calls),
              LAMBDA cs2 :
         IF r.err # "none" THEN Fail(r.err, property, cs2)
         ELSE Eval(SetExtension(property, r.val), LAMBDA node2 :
              ParseEntries(m, i + 1, node2, ed, cs2))))
    ELSE Eval([property EXCEPT
                 !.extensions = Emplace(@, extensionPair.name, extensionPair.value)],
              LAMBDA node2 : ParseEntries(m, i + 1, node2, ed, cs)))

\* the "extensions" member of the inputs of the model is always an object
ParseExtensions(v, property, ed) ==
    IF HasMember(v, "extensions")
    THEN Eval(MemberValue(v, "extensions").m, LAMBDA entries :
         Eval(property, LAMBDA node0 : ParseEntries(entries, 1, node0, ed, <<>>)))
    ELSE Ok(property, <<>>)

----------------------------------------------------------------------------
(* The serialize pipeline.  A members sequence stands for the JSON object  *)
(* under construction.  Besides the error and the value, a result carries  *)
(* the log of the SerializePropertyExtensions invocations made (nested     *)
(* ones included): the owner, the names its registered extensions          *)
(* serialized to, and how the invocation ended.                            *)

SOk(val, log) == [err |-> "none", val |-> val, log |-> log]
SFail(e, log) == [err |-> e, val |-> <<>>, log |-> log]

\* GetKHRExtensionSerializer with the Unlit codec registered under a name the
\* deserializer has no handler for
GetKHRExtensionSerializerRenamed ==
    { Handler(PBRSPECULARGLOSSINESS_NAME, "Material", "PBRSpecularGlossiness"),
      Handler("EXT_a", "Material", "Unlit"),
      Handler(DRACOMESHCOMPRESSION_NAME, "MeshPrimitive", "DracoMeshCompression"),
      Handler(TEXTURETRANSFORM_NAME, "TextureInfo", "TextureTransform") }

\* one entry per AddHandler<TExt, TProp>(name, codec) call
GetKHRExtensionSerializer ==
    { Handler(PBRSPECULARGLOSSINESS_NAME, "Material", "PBRSpecularGlossiness"),
      Handler(UNLIT_NAME, "Material", "Unlit"),
      Handler(DRACOMESHCOMPRESSION_NAME, "MeshPrimitive", "DracoMeshCompression"),
      Handler(TEXTURETRANSFORM_NAME, "TextureInfo", "TextureTransform") }

\* Value::AddMember
AddMember(members, name, value) == Append(members, Member(name, value))

\* IndexedContainer::GetIndex: the position of the element with the id, from 0
RECURSIVE IndexFrom(_, _, _)
IndexFrom(ids, id, i) ==
    IF i > Len(ids) THEN 0 - 1
    ELSE IF ids[i] = id THEN i - 1
    ELSE IndexFrom(ids, id, i + 1)

GetIndex(ids, id) == IndexFrom(ids, id, 1)

\* RapidJsonUtils::AddOptionalMemberIndex: nothing for an empty id; GetIndex
\* throws for an id the container does not hold
AddOptionalMemberIndex(name, members, id, ids) ==
    IF id = "" THEN [err |-> "none", val |-> members]
    ELSE Eval(GetIndex(ids, id), LAMBDA index :
         IF index < 0 THEN [err |-> "UnresolvedReference", val |-> members]
         ELSE [err |-> "none", val |-> AddMember(members, name, JInt(index))])

\* RapidJsonUtils::ToJsonArray of a Color3 / Color4 / Vector2
ToJsonArray(floats) == JArr([i \in 1..Len(floats) |-> Elem(JDbl(floats[i]))])

\* a set as a sequence, in some fixed order
RECURSIVE SetToSeq(_)
SetToSeq(S) ==
    IF S = {} THEN <<>>
    ELSE Eval(CHOOSE x \in S : TRUE, LAMBDA x : <<x>> \o SetToSeq(S \ {x}))

\* glTFProperty::GetExtensions: the registered extensions, in the iteration
\* order of the container (order lists the Extension subclasses)
GetExtensions(property, order) ==
    Eval(SelectSeq(order, LAMBDA k : k \in DOMAIN property.registered), LAMBDA present :
        [i \in 1..Len(present) |-> property.registered[present[i]]])

RECURSIVE SerializeProperty(_, _, _, _, _)

SerializeTextureInfo(gltfDocument, textureInfo, textureValue, textures, es, order) ==
    Eval(AddOptionalMemberIndex("index", textureValue, textureInfo.textureId, textures),
         LAMBDA x :
    IF x.err # "none" THEN SFail(x.err, <<>>)
    ELSE Eval(IF textureInfo.texCoord # 0
              THEN AddMember(x.val, "texCoord", JInt(textureInfo.texCoord))
              ELSE x.val,
              LAMBDA withCoord :
                 SerializeProperty(gltfDocument, textureInfo, withCoord, es, order)))

\* a texture member of PBRSpecularGlossiness, emitted when its textureId is set
SerializeOptionalTexture(gltfDocument, name, textureInfo, members, es, order) ==
    IF textureInfo.textureId = "" THEN SOk(members, <<>>)
    ELSE Eval(SerializeTextureInfo(gltfDocument, textureInfo, <<>>,
                                   gltfDocument.textures, es, order),
         LAMBDA t :
            IF t.err # "none" THEN t
            ELSE SOk(AddMember(members, name, JObj(t.val)), t.log))

\* SerializePBRSpecGloss with glossinessFactor written whatever its value
SerializePBRSpecGlossDense(specGloss, gltfDocument, es, order) ==
    Eval(IF specGloss.diffuseFactor # <<1, 1, 1, 1>>
         THEN AddMember(<<>>, "diffuseFactor", ToJsonArray(specGloss.diffuseFactor))
         ELSE <<>>,
         LAMBDA m1 :
    Eval(SerializeOptionalTexture(gltfDocument, "diffuseTexture",
                                  specGloss.diffuseTexture, m1, es, order),
         LAMBDA t1 :
    IF t1.err # "none" THEN t1
    ELSE
    Eval(IF specGloss.specularFactor # <<1, 1, 1>>
         THEN AddMember(t1.val, "specularFactor", ToJsonArray(specGloss.specularFactor))
         ELSE t1.val,
         LAMBDA m3 :
    Eval(AddMember(m3, "glossinessFactor", JDbl(specGloss.glossinessFactor)),
         LAMBDA m4 :
    Eval(SerializeOptionalTexture(gltfDocument, "specularGlossinessTexture",
                                  specGloss.specularGlossinessTexture, m4, es, order),
         LAMBDA t2 :
    IF t2.err # "none" THEN SFail(t2.err, t1.log \o t2.log)
    ELSE
    Eval(SerializeProperty(gltfDocument, specGloss, t2.val, es, order), LAMBDA p :
    IF p.err # "none" THEN SFail(p.err, t1.log \o t2.log \o p.log)
    ELSE SOk(Write(JObj(p.val)), t1.log \o t2.log \o p.log)))))))

SerializePBRSpecGloss(specGloss, gltfDocument, es, order) ==
    Eval(IF specGloss.diffuseFactor # <<1, 1, 1, 1>>
         THEN AddMember(<<>>, "diffuseFactor", ToJsonArray(specGloss.diffuseFactor))
         ELSE <<>>,
         LAMBDA m1 :
    Eval(SerializeOptionalTexture(gltfDocument, "diffuseTexture",
                                  specGloss.diffuseTexture, m1, es, order),
         LAMBDA t1 :
    IF t1.err # "none" THEN t1
    ELSE
    Eval(IF specGloss.specularFactor # <<1, 1, 1>>
         THEN AddMember(t1.val, "specularFactor", ToJsonArray(specGloss.specularFactor))
         ELSE t1.val,
         LAMBDA m3 :
    Eval(IF specGloss.glossinessFactor # 1
         THEN AddMember(m3, "glossinessFactor", JDbl(specGloss.glossinessFactor))
         ELSE m3,
         LAMBDA m4 :
    Eval(SerializeOptionalTexture(gltfDocument, "specularGlossinessTexture",
                                  specGloss.specularGlossinessTexture, m4, es, order),
         LAMBDA t2 :
    IF t2.err # "none" THEN SFail(t2.err, t1.log \o t2.log)
    ELSE
    Eval(SerializeProperty(gltfDocument, specGloss, t2.val, es, order), LAMBDA p :
    IF p.err # "none" THEN SFail(p.err, t1.log \o t2.log \o p.log)
    ELSE SOk(Write(JObj(p.val)), t1.log \o t2.log \o p.log)))))))

SerializeUnlit(extension, gltfDocument, es, order) ==
    Eval(SerializeProperty(gltfDocument, extension, <<>>, es, order), LAMBDA p :
        IF p.err # "none" THEN p ELSE SOk(Write(JObj(p.val)), p.log))

\* the attributes object: one unsigned member per attribute
AttributesValue(attributes) ==
    Eval(SetToSeq(DOMAIN attributes), LAMBDA names :
        JObj([i \in 1..Len(names) |-> Member(names[i], JInt(attributes[names[i]]))]))

SerializeDracoMeshCompression(dracoMeshCompression, glTFdoc, es, order) ==
    Eval(IF dracoMeshCompression.bufferViewId # ""
         THEN AddOptionalMemberIndex("bufferView", <<>>, dracoMeshCompression.bufferViewId,
                                     glTFdoc.bufferViews)
         ELSE [err |-> "none", val |-> <<>>],
         LAMBDA x :
    IF x.err # "none" THEN SFail(x.err, <<>>)
    ELSE
    Eval(AddMember(x.val, "attributes", AttributesValue(dracoMeshCompression.attributes)),
         LAMBDA m2 :
    Eval(SerializeProperty(glTFdoc, dracoMeshCompression, m2, es, order), LAMBDA p :
    IF p.err # "none" THEN p
    ELSE SOk(Write(JObj(p.val)), p.log))))

SerializeTextureTransform(textureTransform, gltfDocument, es, order) ==
    Eval(IF textureTransform.offset # <<0, 0>>
         THEN AddMember(<<>>, "offset", ToJsonArray(textureTransform.offset))
         ELSE <<>>,
         LAMBDA m1 :
    Eval(IF textureTransform.rotation # 0
         THEN AddMember(m1, "rotation", JDbl(textureTransform.rotation))
         ELSE m1,
         LAMBDA m2 :
    Eval(IF textureTransform.scale # <<1, 1>>
         THEN AddMember(m2, "scale", ToJsonArray(textureTransform.scale))
         ELSE m2,
         LAMBDA m3 :
    Eval(IF textureTransform.texCoord # 0
         THEN AddMember(m3, "texCoord", JInt(textureTransform.texCoord))
         ELSE m3,
         LAMBDA m4 :
    Eval(SerializeProperty(gltfDocument, textureTransform, m4, es, order), LAMBDA p :
    IF p.err # "none" THEN p ELSE SOk(Write(JObj(p.val)), p.log))))))

\* ExtensionSerializer::Serialize: the name and the codec registered for the
\* Extension subclass of the instance; the result is the ExtensionPair
SerializeExtension(es, extension, property, gltfDocument, order) ==
    IF ~\E h \in es : h.variant = extension.kind THEN SFail("NoHandler", <<>>)
    ELSE
    Eval(CHOOSE h \in es : h.variant = extension.kind, LAMBDA h :
    Eval(CASE h.variant = "PBRSpecularGlossiness" ->
                  SerializePBRSpecGloss(extension, gltfDocument, es, order)
           [] h.variant = "Unlit" ->
                  SerializeUnlit(extension, gltfDocument, es, order)
           [] h.variant = "DracoMeshCompression" ->
                  SerializeDracoMeshCompression(extension, gltfDocument, es, order)
           [] h.variant = "TextureTransform" ->
                  SerializeTextureTransform(extension, gltfDocument, es, order),
         LAMBDA r :
    IF r.err # "none" THEN r
    ELSE SOk([name |-> h.name, value |-> r.val], r.log)))

\* the first loop of SerializePropertyExtensions, from registered extension i
\* on: acc holds the members of "extensions", names the names serialized to
RECURSIVE SerializeRegistered(_, _, _, _, _, _, _, _, _)

\* SerializeRegistered without the extensionsUsed check
SerializeRegisteredUndeclared(gltfDocument, property, exts, i, acc, names, log, es, order) ==
    IF i > Len(exts) THEN [err |-> "none", val |-> acc, names |-> names, log |-> log]
    ELSE
    Eval(SerializeExtension(es, exts[i], property, gltfDocument, order), LAMBDA r :
    Eval(log \o r.log, LAMBDA log2 :
    IF r.err # "none" THEN [err |-> r.err, val |-> acc, names |-> names, log |-> log2]
    ELSE
    Eval(Append(names, r.val.name), LAMBDA names2 :
    IF HasUnregisteredExtension(property, r.val.name)
    THEN [err |-> "NameCollision", val |-> acc, names |-> names2, log |-> log2]
    ELSE
    Eval(CreateDocumentFromString(r.val.value), LAMBDA d :
    IF d.err # "none" THEN [err |-> d.err, val |-> acc, names |-> names2, log |-> log2]
    ELSE
    Eval(AddMember(acc, r.val.name, d.val), LAMBDA acc2 :
    SerializeRegistered(gltfDocument, property, exts, i + 1, acc2, names2, log2,
                        es, order))))))

\* SerializeRegistered without the check against the unregistered map
SerializeRegisteredColliding(gltfDocument, property, exts, i, acc, names, log, es, order) ==
    IF i > Len(exts) THEN [err |-> "none", val |-> acc, names |-> names, log |-> log]
    ELSE
    Eval(SerializeExtension(es, exts[i], property, gltfDocument, order), LAMBDA r :
    Eval(log \o r.log, LAMBDA log2 :
    IF r.err # "none" THEN [err |-> r.err, val |-> acc, names |-> names, log |-> log2]
    ELSE
    Eval(Append(names, r.val.name), LAMBDA names2 :
    IF r.val.name \notin gltfDocument.extensionsUsed
    THEN [err |-> "UndeclaredUsage", val |-> acc, names |-> names2, log |-> log2]
    ELSE
    Eval(CreateDocumentFromString(r.val.value), LAMBDA d :
    IF d.err # "none" THEN [err |-> d.err, val |-> acc, names |-> names2, log |-> log2]
    ELSE
    Eval(AddMember(acc, r.val.name, d.val), LAMBDA acc2 :
    SerializeRegistered(gltfDocument, property, exts, i + 1, acc2, names2, log2,
                        es, order))))))

SerializeRegistered(gltfDocument, property, exts, i, acc, names, log, es, order) ==
    IF i > Len(exts) THEN [err |-> "none", val |-> acc, names |-> names, log |-> log]
    ELSE
    Eval(SerializeExtension(es, exts[i], property, gltfDocument, order), LAMBDA r :
    Eval(log \o r.log, LAMBDA log2 :
    IF r.err # "none" THEN [err |-> r.err, val |-> acc, names |-> names, log |-> log2]
    ELSE
    Eval(Append(names, r.val.name), LAMBDA names2 :
    IF HasUnregisteredExtension(property, r.val.name)
    THEN [err |-> "NameCollision", val |-> acc, names |-> names2, log |-> log2]
    ELSE IF r.val.name \notin gltfDocument.extensionsUsed
    THEN [err |-> "UndeclaredUsage", val |-> acc, names |-> names2, log |-> log2]
    ELSE
    Eval(CreateDocumentFromString(r.val.value), LAMBDA d :
    IF d.err # "none" THEN [err |-> d.err, val |-> acc, names |-> names2, log |-> log2]
    ELSE
    Eval(AddMember(acc, r.val.name, d.val), LAMBDA acc2 :
    SerializeRegistered(gltfDocument, property, exts, i + 1, acc2, names2, log2,
                        es, order))))))

\* the second loop: the unregistered extensions, attached as they are
RECURSIVE SerializeUnregistered(_, _, _, _)
SerializeUnregistered(property, keys, i, acc) ==
    IF i > Len(keys) THEN [err |-> "none", val |-> acc]
    ELSE Eval(CreateDocumentFromString(property.extensions[keys[i]]), LAMBDA d :
         IF d.err # "none" THEN [err |-> d.err, val |-> acc]
         ELSE Eval(AddMember(acc, keys[i], d.val), LAMBDA acc2 :
              SerializeUnregistered(property, keys, i + 1, acc2)))

\* one line of the log
Invocation(property, names, e) == [owner |-> property, names |-> names, err |-> e]

\* SerializePropertyExtensions with the unregistered names validated against
\* extensionsUsed as the registered ones are
SerializePropertyExtensionsDeclared(gltfDocument, property, propertyValue, es, order) ==
    Eval(GetExtensions(property, order), LAMBDA registeredExtensions :
    IF DOMAIN property.extensions = {} /\ Len(registeredExtensions) = 0
    THEN SOk(propertyValue, <<Invocation(property, <<>>, "none")>>)
    ELSE
    Eval(SerializeRegistered(gltfDocument, property, registeredExtensions, 1,
                             <<>>, <<>>, <<>>, es, order),
         LAMBDA reg :
    IF reg.err # "none"
    THEN SFail(reg.err, reg.log \o <<Invocation(property, reg.names, reg.err)>>)
    ELSE IF ~(DOMAIN property.extensions \subseteq gltfDocument.extensionsUsed)
    THEN SFail("UndeclaredUsage",
               reg.log \o <<Invocation(property, reg.names, "UndeclaredUsage")>>)
    ELSE
    Eval(SerializeUnregistered(property, SetToSeq(DOMAIN property.extensions), 1, reg.val),
         LAMBDA unreg :
    Eval(reg.log \o <<Invocation(property, reg.names, unreg.err)>>, LAMBDA log :
    IF unreg.err # "none" THEN SFail(unreg.err, log)
    ELSE SOk(AddMember(propertyValue, "extensions", JObj(unreg.val)), log)))))

SerializePropertyExtensions(gltfDocument, property, propertyValue, es, order) ==
    Eval(GetExtensions(property, order), LAMBDA registeredExtensions :
    IF DOMAIN property.extensions = {} /\ Len(registeredExtensions) = 0
    THEN SOk(propertyValue, <<Invocation(property, <<>>, "none")>>)
    ELSE
    Eval(SerializeRegistered(gltfDocument, property, registeredExtensions, 1,
                             <<>>, <<>>, <<>>, es, order),
         LAMBDA reg :
    IF reg.err # "none"
    THEN SFail(reg.err, reg.log \o <<Invocation(property, reg.names, reg.err)>>)
    ELSE
    Eval(SerializeUnregistered(property, SetToSeq(DOMAIN property.extensions), 1, reg.val),
         LAMBDA unreg :
    Eval(reg.log \o <<Invocation(property, reg.names, unreg.err)>>, LAMBDA log :
    IF unreg.err # "none" THEN SFail(unreg.err, log)
    ELSE SOk(AddMember(propertyValue, "extensions", JObj(unreg.val)), log)))))

SerializePropertyExtras(property, propertyValue) ==
    IF property.extras = <<>> THEN [err |-> "none", val |-> propertyValue]
    ELSE Eval(CreateDocumentFromString(property.extras), LAMBDA d :
         IF d.err # "none" THEN [err |-> d.err, val |-> propertyValue]
         ELSE [err |-> "none", val |-> AddMember(propertyValue, "extras", d.val)])

SerializeProperty(gltfDocument, property, propertyValue, es, order) ==
    Eval(SerializePropertyExtensions(gltfDocument, property, propertyValue, es, order),
         LAMBDA x :
    IF x.err # "none" THEN x
    ELSE Eval(SerializePropertyExtras(property, x.val), LAMBDA y :
         IF y.err # "none" THEN SFail(y.err, x.log)
         ELSE SOk(y.val, x.log)))

----------------------------------------------------------------------------
(* Equality of extensions *)

RECURSIVE IsEqual(_, _)

\* glTFProperty::Equals: extras, unregistered and registered extensions
Equals(lhs, rhs0) ==
    /\ lhs.extras = rhs0.extras
    /\ lhs.extensions = rhs0.extensions
    /\ DOMAIN lhs.registered = DOMAIN rhs0.registered
    /\ \A k \in DOMAIN lhs.registered : IsEqual(lhs.registered[k], rhs0.registered[k])

\* TextureInfo::operator==
TextureInfoEquals(lhs, rhs0) ==
    /\ lhs.textureId = rhs0.textureId
    /\ lhs.texCoord = rhs0.texCoord
    /\ Equals(lhs, rhs0)

PBRSpecularGlossinessIsEqual(this, other) ==
    /\ other.kind = "PBRSpecularGlossiness"
    /\ Equals(this, other)
    /\ this.diffuseFactor = other.diffuseFactor
    /\ TextureInfoEquals(this.diffuseTexture, other.diffuseTexture)
    /\ this.specularFactor = other.specularFactor
    /\ this.glossinessFactor = other.glossinessFactor
    /\ TextureInfoEquals(this.specularGlossinessTexture, other.specularGlossinessTexture)

UnlitIsEqual(this, other) == other.kind = "Unlit"

DracoMeshCompressionIsEqual(this, other) ==
    /\ other.kind = "DracoMeshCompression"
    /\ Equals(this, other)
    /\ this.bufferViewId = other.bufferViewId
    /\ this.attributes = other.attributes

TextureTransformIsEqual(this, other) ==
    /\ other.kind = "TextureTransform"
    /\ Equals(this, other)
    /\ this.offset = other.offset
    /\ this.rotation = other.rotation
    /\ this.scale = other.scale
    /\ this.texCoord = other.texCoord

\* the virtual call Extension::IsEqual
IsEqual(this, other) ==
    CASE this.kind = "PBRSpecularGlossiness" -> PBRSpecularGlossinessIsEqual(this, other)
      [] this.kind = "Unlit" -> UnlitIsEqual(this, other)
      [] this.kind = "DracoMeshCompression" -> DracoMeshCompressionIsEqual(this, other)
      [] this.kind = "TextureTransform" -> TextureTransformIsEqual(this, other)

----------------------------------------------------------------------------
(* The inputs of the model *)

OwnerKinds == {"Material", "MeshPrimitive", "TextureInfo"}

\* a default-constructed owner of the kind
NewOwner(kind) == IF kind = "TextureInfo" THEN NewTextureInfo ELSE Property(kind)

\* JSON objects, written member by member
Obj1(n1, v1) == JObj(<<Member(n1, v1)>>)
Obj2(n1, v1, n2, v2) == JObj(<<Member(n1, v1), Member(n2, v2)>>)
EmptyObj == JObj(<<>>)

UnknownNames == {"EXT_a", "EXT_b"}

\* the (name, child) entries an "extensions" object of the inputs is made of
EntryChoices ==
    { Member(PBRSPECULARGLOSSINESS_NAME, EmptyObj),
      Member(PBRSPECULARGLOSSINESS_NAME,
             Obj1("diffuseTexture",
                  Obj2("index", JInt(0),
                       "extensions", Obj1(TEXTURETRANSFORM_NAME, Obj1("rotation", JDbl(1)))))),
      Member(PBRSPECULARGLOSSINESS_NAME, Obj1("diffuseTexture", EmptyObj)),
      Member(UNLIT_NAME, EmptyObj),
      Member(UNLIT_NAME, Obj1("extensions", Obj1(UNLIT_NAME, EmptyObj))),
      Member(DRACOMESHCOMPRESSION_NAME,
             Obj2("bufferView", JInt(0), "attributes", Obj1("POSITION", JInt(0)))),
      Member(TEXTURETRANSFORM_NAME, Obj1("texCoord", JInt(1))),
      Member(PBRSPECULARGLOSSINESS_NAME,
             Obj1("diffuseTexture",
                  Obj2("index", JInt(0),
                       "extensions",
                       Obj1(TEXTURETRANSFORM_NAME,
                            Obj1("extensions",
                                 Obj1(PBRSPECULARGLOSSINESS_NAME,
                                      Obj1("diffuseTexture", Obj1("index", JInt(0))))))))),
      Member(TEXTURETRANSFORM_NAME, Obj1("extensions", Obj1(TEXTURETRANSFORM_NAME, EmptyObj))),
      Member(TEXTURETRANSFORM_NAME, Obj1("extensions", Obj1("EXT_a", EmptyObj))),
      Member("EXT_a", EmptyObj),
      Member("EXT_a", Obj1("k", JArr(<<Elem(JInt(1)), Elem(JDbl(2))>>))),
      Member("EXT_a", Obj1("extensions", Obj1(UNLIT_NAME, EmptyObj))),
      Member("EXT_b", JInt(5)) }

\* the JSON of an entity: no "extensions" member, or one of up to MaxEntries entries
EntityJsons ==
    {EmptyObj} \cup
    { Obj1("extensions", JObj(es)) :
        es \in UNION { [1..n -> EntryChoices] : n \in 0..MaxEntries } }

\* the Documents entities are serialized against
Document(used, textures, bufferViews) ==
    [extensionsUsed |-> used, textures |-> textures, bufferViews |-> bufferViews,
     loaded |-> TRUE]

NoDocument ==
    [extensionsUsed |-> {}, textures |-> <<>>, bufferViews |-> <<>>, loaded |-> FALSE]

KHRNames == {PBRSPECULARGLOSSINESS_NAME, UNLIT_NAME, DRACOMESHCOMPRESSION_NAME,
             TEXTURETRANSFORM_NAME}

Documents ==
    { Document({}, <<"0", "1">>, <<"0">>),
      Document(KHRNames, <<"0", "1">>, <<"0">>),
      Document(KHRNames \ {TEXTURETRANSFORM_NAME}, <<"0", "1">>, <<"0">>),
      Document(KHRNames, <<"tex", "0">>, <<"bv">>) }

\* the iteration orders of the registered extensions of a property
Orders ==
    { <<"PBRSpecularGlossiness", "Unlit", "DracoMeshCompression", "TextureTransform">>,
      <<"Unlit", "PBRSpecularGlossiness", "DracoMeshCompression", "TextureTransform">> }

\* raw texts set through the API
EmptyObjText == Write(EmptyObj)
SomeText == Write(Obj1("k", JInt(1)))
ExtrasChoices == {<<>>, SomeText}

Map1(k, v) == [x \in {k} |-> v]

TextureTransforms ==
    { [NewTextureTransform EXCEPT !.offset = o, !.rotation = r, !.scale = sc,
                                  !.texCoord = c, !.extras = x] :
        o \in {<<0, 0>>, <<1, 0>>}, r \in {0, 1}, sc \in {<<1, 1>>, <<1, 2>>},
        c \in {0, 1}, x \in ExtrasChoices }

TexInfo(id, c) == [NewTextureInfo EXCEPT !.textureId = id, !.texCoord = c]

TextureInfos ==
    { NewTextureInfo, TexInfo("0", 0), TexInfo("tex", 0), TexInfo("9", 0), TexInfo("", 1),
      SetExtension(TexInfo("1", 1), [NewTextureTransform EXCEPT !.rotation = 1]),
      SetExtension(TexInfo("", 0), NewTextureTransform) }

PBRSpecularGlossinesses ==
    { [NewPBRSpecularGlossiness EXCEPT !.diffuseFactor = f[1], !.specularFactor = f[2],
                                       !.glossinessFactor = f[3], !.diffuseTexture = dt,
                                       !.specularGlossinessTexture = sgt, !.extras = x] :
        f \in { <<<<1, 1, 1, 1>>, <<1, 1, 1>>, 1>>, <<<<0, 1, 1, 1>>, <<1, 1, 1>>, 1>>,
                <<<<1, 1, 1, 1>>, <<0, 1, 1>>, 1>>, <<<<1, 1, 1, 1>>, <<1, 1, 1>>, 0>> },
        dt \in TextureInfos,
        sgt \in {NewTextureInfo, TexInfo("1", 0)},
        x \in ExtrasChoices }

Unlits ==
    { [NewUnlit EXCEPT !.extras = x, !.extensions = u] :
        x \in ExtrasChoices, u \in {EmptyMap, Map1("EXT_a", EmptyObjText)} }

AttributeMaps ==
    { EmptyMap, Map1("POSITION", 0), Map1("POSITION", IntMax), Map1("POSITION", IntMax + 1),
      [x \in {"POSITION", "NORMAL"} |-> IF x = "POSITION" THEN UintMax ELSE 1] }

DracoMeshCompressions ==
    { [NewDracoMeshCompression EXCEPT !.bufferViewId = b, !.attributes = a, !.extras = x] :
        b \in {"", "0", "bv"}, a \in AttributeMaps, x \in ExtrasChoices }

\* the Extension instances built through the API
Extensions ==
    PBRSpecularGlossinesses \cup Unlits \cup DracoMeshCompressions \cup TextureTransforms

\* subsets of at most one extension per choice set, as a registered map
RegisteredOf(S) == [k \in {e.kind : e \in S} |-> CHOOSE e \in S : e.kind = k]

Materials ==
    { [Property("Material") EXCEPT !.registered = RegisteredOf(p \cup u), !.extensions = x] :
        p \in { {}, {NewPBRSpecularGlossiness},
                {[NewPBRSpecularGlossiness EXCEPT !.diffuseTexture =
                     SetExtension(TexInfo("0", 0), NewTextureTransform)]},
                {[NewPBRSpecularGlossiness EXCEPT !.diffuseTexture = TexInfo("9", 0)]} },
        u \in { {}, {NewUnlit} },
        x \in { EmptyMap, Map1("EXT_a", SomeText), Map1(UNLIT_NAME, EmptyObjText),
                Map1(PBRSPECULARGLOSSINESS_NAME, EmptyObjText) } }

MeshPrimitives ==
    { [Property("MeshPrimitive") EXCEPT !.registered = RegisteredOf(d), !.extensions = x] :
        d \in { {}, {NewDracoMeshCompression},
                {[NewDracoMeshCompression EXCEPT !.bufferViewId = "9"]} },
        x \in { EmptyMap, Map1(DRACOMESHCOMPRESSION_NAME, EmptyObjText) } }

OwnedTextureInfos ==
    { [TexInfo("0", 0) EXCEPT !.registered = RegisteredOf(t), !.extensions = x] :
        t \in { {}, {NewTextureTransform}, {[NewTextureTransform EXCEPT !.rotation = 1]} },
        x \in { EmptyMap, Map1("EXT_b", SomeText), Map1(TEXTURETRANSFORM_NAME, EmptyObjText) } }

\* the entities built through the API
Owners == Materials \cup MeshPrimitives \cup OwnedTextureInfos

\* the JSON values handed to a codec directly
NumberChoices ==
    { JInt(0 - 1), JInt(0), JInt(IntMax), JInt(IntMax + 1), JInt(UintMax), JDbl(1),
      JStr("abc") }

CodecInputs ==
    [DracoMeshCompression |->
        { EmptyObj, Obj1("attributes", JInt(5)), Obj1("attributes", JArr(<<>>)),
          Obj1("attributes", EmptyObj),
          Obj2("bufferView", JInt(0), "attributes", Obj1("POSITION", JInt(1))),
          Obj1("attributes", Obj2("POSITION", JInt(1), "POSITION", JInt(2))) }
        \cup { Obj1("attributes", Obj1("POSITION", n)) : n \in NumberChoices }
        \cup { Obj1("attributes", Obj2("POSITION", JInt(1), "NORMAL", n)) : n \in NumberChoices },
     TextureTransform |->
        { EmptyObj, Obj1("offset", JArr(<<Elem(JDbl(1))>>)),
          Obj1("scale", JArr(<<Elem(JDbl(1)), Elem(JDbl(2)), Elem(JDbl(3))>>)),
          Obj2("offset", JArr(<<Elem(JDbl(1)), Elem(JDbl(0))>>), "texCoord", JInt(1)) },
     PBRSpecularGlossiness |->
        { EmptyObj, Obj1("diffuseTexture", EmptyObj),
          Obj1("specularGlossinessTexture", Obj2("index", JInt(1), "texCoord", JInt(1))),
          Obj1("glossinessFactor", JDbl(0)) },
     Unlit |-> { EmptyObj, Obj1("extras", Obj1("k", JInt(1))) }]

\* the owner kind and the name an Extension subclass is registered with
HandlerOf(variant) == CHOOSE h \in GetKHRExtensionDeserializer : h.variant = variant

----------------------------------------------------------------------------
(* The state machine: one operation of the library per step *)

NoNode == [kind |-> "none"]

Init ==
    /\ pc = "start"
    /\ NDEBUG \in BOOLEAN
    /\ doc = NoDocument
    /\ node = NoNode
    /\ json = EmptyObj
    /\ text = <<>>
    /\ out = <<>>
    /\ rhs = NoNode
    /\ eq = FALSE
    /\ err = "none"
    /\ calls = <<>>
    /\ invocations = <<>>

\* ParseExtensions on a fresh entity of the kind
ParseEntity(kind, v) ==
    /\ pc = "start"
    /\ \E r \in {ParseExtensions(v, NewOwner(kind), GetKHRExtensionDeserializer)} :
       /\ node' = r.val
       /\ err' = r.err
       /\ calls' = r.calls
    /\ json' = v
    /\ pc' = "parsed"
    /\ UNCHANGED <<NDEBUG, doc, text, out, rhs, eq, invocations>>

\* an entity or an extension built through the API
Construct(e) ==
    /\ pc = "start"
    /\ node' = e
    /\ pc' = "built"
    /\ UNCHANGED <<NDEBUG, doc, json, text, out, rhs, eq, err, calls, invocations>>

\* the Document of the entity
UseDocument(d) ==
    /\ pc \in {"parsed", "built"}
    /\ err = "none"
    /\ ~doc.loaded
    /\ doc' = d
    /\ UNCHANGED <<pc, NDEBUG, node, json, text, out, rhs, eq, err, calls, invocations>>

\* SerializePropertyExtensions of the entity into an empty JSON object
SerializeEntity(order) ==
    /\ pc \in {"parsed", "built"}
    /\ doc.loaded
    /\ node.kind \in OwnerKinds
    /\ \E r \in {SerializePropertyExtensions(doc, node, <<>>, GetKHRExtensionSerializer,
                                             order)} :
       /\ out' = r.val
       /\ err' = r.err
       /\ invocations' = r.log
    /\ pc' = IF pc = "parsed" THEN "reserialized" ELSE "serialized"
    /\ UNCHANGED <<NDEBUG, doc, node, json, text, rhs, eq, calls>>

\* the serializer of the extension, through the registry
EncodeExtension(order) ==
    /\ pc = "built"
    /\ doc.loaded
    /\ node.kind \in Variants
    /\ \E r \in {SerializeExtension(GetKHRExtensionSerializer, node,
                                    NewOwner(HandlerOf(node.kind).owner), doc, order)} :
       /\ text' = IF r.err = "none" THEN r.val.value ELSE <<>>
       /\ err' = r.err
       /\ invocations' = r.log
    /\ pc' = "encoded"
    /\ UNCHANGED <<NDEBUG, doc, node, json, out, rhs, eq, calls>>

\* the deserializer of the same extension, on the text just produced
DecodeExtension ==
    /\ pc = "encoded"
    /\ err = "none"
    /\ \E h \in {HandlerOf(node.kind)} :
       \E r \in {Deserialize(GetKHRExtensionDeserializer,
                             [name |-> h.name, value |-> text], NewOwner(h.owner))} :
          /\ rhs' = r.val
          /\ err' = r.err
          /\ calls' = r.calls
          /\ eq' = (r.err = "none" /\ IsEqual(r.val, node))
    /\ pc' = "roundtrip"
    /\ UNCHANGED <<NDEBUG, doc, node, json, text, out, invocations>>

\* a deserializer on a given JSON text
DecodeText(variant, v) ==
    /\ pc = "start"
    /\ \E h \in {HandlerOf(variant)} :
       \E r \in {Deserialize(GetKHRExtensionDeserializer,
                             [name |-> h.name, value |-> Serialize(v)], NewOwner(h.owner))} :
          /\ node' = r.val
          /\ err' = r.err
          /\ calls' = r.calls
    /\ json' = v
    /\ text' = Serialize(v)
    /\ pc' = "decoded"
    /\ UNCHANGED <<NDEBUG, doc, out, rhs, eq, invocations>>

\* Extension::operator== of the extension and another one
Compare(other) ==
    /\ pc = "built"
    /\ ~doc.loaded
    /\ node.kind \in Variants
    /\ rhs' = other
    /\ eq' = IsEqual(node, other)
    /\ pc' = "compared"
    /\ UNCHANGED <<NDEBUG, doc, node, json, text, out, err, calls, invocations>>

Next ==
    \/ \E kind \in OwnerKinds, v \in EntityJsons : ParseEntity(kind, v)
    \/ \E e \in Owners \cup Extensions : Construct(e)
    \/ \E d \in Documents : UseDocument(d)
    \/ \E order \in Orders : SerializeEntity(order)
    \/ \E order \in Orders : EncodeExtension(order)
    \/ DecodeExtension
    \/ \E variant \in Variants : \E v \in CodecInputs[variant] : DecodeText(variant, v)
    \/ \E other \in Extensions : Compare(other)

Spec == Init /\ [][Next]_vars

----------------------------------------------------------------------------
(* Properties of ParseExtensions *)

\* the entries of the "extensions" object of the parsed JSON
InputEntries ==
    IF HasMember(json, "extensions") THEN MemberValue(json, "extensions").m ELSE <<>>

InputNames == {InputEntries[i].name : i \in 1..Len(InputEntries)}

\* the first child of the input called name
FirstChild(name) == InputEntries[FindFrom(InputEntries, name, 1)].value

\* the calls ParseExtensions made itself, in order
TopCalls == SelectSeq(calls, LAMBDA c : Len(c) = 1)
TopNames == {TopCalls[i][1].name : i \in 1..Len(TopCalls)}

\* the pre-check of the dispatch rule, for a name on the parsed owner
Handled(name) ==
    \/ HasHandler(GetKHRExtensionDeserializer, name, node)
    \/ HasHandlerName(GetKHRExtensionDeserializer, name)

\* the name has handlers, but none for this kind of owner
ForeignOnly(name, kind) ==
    /\ HasHandlerName(GetKHRExtensionDeserializer, name)
    /\ ~HasHandler(GetKHRExtensionDeserializer, name, [kind |-> kind])

\* C1: ParseExtensions dispatches (Deserialize + SetExtension) exactly the
\* entries whose name has a handler for the owner's kind or for any kind, and
\* stores every other entry in the unregistered map; after a successful
\* parse every input name without a handler is a key of the unregistered map
\* and the typed extensions all come from names with a handler.
C1_DispatchSplit ==
    pc = "parsed" =>
        /\ \A n \in TopNames : Handled(n) /\ n \in InputNames
        /\ \A n \in DOMAIN node.extensions : ~Handled(n) /\ n \in InputNames
        /\ err = "none" =>
             /\ \A n \in InputNames :
                   IF Handled(n)
                   THEN /\ n \in TopNames
                        /\ n \notin DOMAIN node.extensions
                        /\ \E h \in GetKHRExtensionDeserializer :
                              h.name = n /\ h.variant \in DOMAIN node.registered
                   ELSE n \in DOMAIN node.extensions /\ n \notin TopNames
             /\ \A k \in DOMAIN node.registered :
                   \E h \in GetKHRExtensionDeserializer :
                      h.variant = k /\ h.owner = node.kind /\ h.name \in InputNames
             /\ Len(TopCalls) = Cardinality({i \in 1..Len(InputEntries) :
                                              Handled(InputEntries[i].name)})

\* a successful parse that stored a name without a handler and dispatched one with
C1_Witness ==
    /\ pc = "parsed"
    /\ err = "none"
    /\ DOMAIN node.extensions # {}
    /\ DOMAIN node.registered # {}

\* C2: a name whose handlers are all registered for other kinds than the
\* kind of the property being parsed (at the top level or inside an extension
\* value's own "extensions") makes the parse fail with the no-handler error
\* at that call; it is never stored in the unregistered map.
C2_ForeignKindFails ==
    pc = "parsed" =>
        /\ \A i \in 1..Len(calls) :
              LET c == calls[i][Len(calls[i])] IN
              ForeignOnly(c.name, c.owner) => i = Len(calls) /\ err = "NoHandler"
        /\ \A n \in InputNames :
              ForeignOnly(n, node.kind) => err # "none" /\ n \notin DOMAIN node.extensions
        /\ \A n \in DOMAIN node.extensions : ~ForeignOnly(n, node.kind)

\* the TextureTransform name met on a Material, and a registered name met
\* inside an extension value's own "extensions"
C2_Witness ==
    /\ pc = "parsed"
    /\ err = "NoHandler"
    /\ \/ node.kind = "Material" /\ TEXTURETRANSFORM_NAME \in InputNames
       \/ \E i \in 1..Len(calls) :
             Len(calls[i]) = 2 /\ calls[i][2].owner \in Variants

----------------------------------------------------------------------------
(* Properties of SerializePropertyExtensions and of the round trips *)

\* the members of the "extensions" object written by SerializePropertyExtensions
OutEntries ==
    IF FindFrom(out, "extensions", 1) = 0 THEN <<>>
    ELSE out[FindFrom(out, "extensions", 1)].value.m

OutPairs == {OutEntries[i] : i \in 1..Len(OutEntries)}

\* every extension of the parsed input is an unregistered one
OnlyUnregistered == \A n \in InputNames : ~Handled(n)

\* C3: for an entity whose only extensions are unregistered, serializing the
\* parsed entity succeeds whatever extensionsUsed holds and writes under
\* "extensions" one member per input name, with the content of the first
\* occurrence of that name in the input.
C3_UnregisteredRoundTrip ==
    pc = "reserialized" /\ OnlyUnregistered =>
        /\ err = "none"
        /\ OutPairs = {Member(n, FirstChild(n)) : n \in InputNames}
        /\ Len(OutEntries) = Cardinality(InputNames)

\* C3 as the specification states it: the pairs written are exactly the
\* pairs of the input
C3_AsStated ==
    pc = "reserialized" /\ OnlyUnregistered =>
        /\ err = "none"
        /\ OutPairs = {InputEntries[i] : i \in 1..Len(InputEntries)}

\* unregistered extensions written for a document that declares none of them
C3_Witness ==
    /\ pc = "reserialized"
    /\ OnlyUnregistered
    /\ Cardinality(InputNames) = 2
    /\ doc.extensionsUsed = {}
    /\ err = "none"
    /\ Len(OutEntries) = 2

\* an instance that stands for a glTF object: a texture reference without a
\* texture carries nothing else
ValidTextureInfo(t) == t.textureId = "" => t = NewTextureInfo

ValidInstance(e) ==
    e.kind = "PBRSpecularGlossiness" =>
        ValidTextureInfo(e.diffuseTexture) /\ ValidTextureInfo(e.specularGlossinessTexture)

\* C4: deserializing the text a variant's serializer wrote for a valid
\* instance succeeds and yields an instance equal to it.
C4_RoundTrip ==
    pc = "roundtrip" /\ ValidInstance(node) => err = "none" /\ eq

\* a DracoMeshCompression whose own serialization is rejected, and a texture
\* whose id is not its position in the document
C4_Witness ==
    /\ pc = "roundtrip"
    /\ ValidInstance(node)
    /\ \/ node.kind = "DracoMeshCompression" /\ err = "SchemaViolation"
       \/ node.kind = "PBRSpecularGlossiness" /\ err = "none" /\ ~eq

\* the errors of the ReferentialIntegrityViolation category
ReferentialIntegrityViolation == {"NameCollision", "UndeclaredUsage", "UnresolvedReference"}

\* the name the serializer registry gives an Extension subclass
SerializerName(variant) ==
    (CHOOSE h \in GetKHRExtensionSerializer : h.variant = variant).name

\* the property carries a registered extension the document does not declare
Undeclared(property) ==
    \E k \in DOMAIN property.registered : SerializerName(k) \notin doc.extensionsUsed

Serializing == pc \in {"serialized", "reserialized", "encoded"}

RECURSIVE NoRepeatedExtension(_)
NoRepeatedExtension(v) ==
    IF v.t \notin {"obj", "arr"} THEN TRUE
    ELSE \A i \in 1..Len(v.m) :
            /\ NoRepeatedExtension(v.m[i].value)
            /\ v.t = "obj" /\ v.m[i].name = "extensions" /\ IsObject(v.m[i].value) =>
                  \A j, k \in 1..Len(v.m[i].value.m) :
                     v.m[i].value.m[j].name = v.m[i].value.m[k].name => j = k

\* C6: an invocation of SerializePropertyExtensions in which a registered
\* extension serialized to a name that is a key of the owner's unregistered
\* map fails with the name-collision error, an owner with such an extension
\* is never serialized successfully, and no "extensions" object written has
\* a name twice.
C6_NameCollisionFails ==
    Serializing =>
        /\ \A i \in 1..Len(invocations) :
              /\ (\E j \in 1..Len(invocations[i].names) :
                     HasUnregisteredExtension(invocations[i].owner, invocations[i].names[j]))
                   => invocations[i].err = "NameCollision" /\ err = "NameCollision"
              /\ (\E k \in DOMAIN invocations[i].owner.registered :
                     HasUnregisteredExtension(invocations[i].owner, SerializerName(k)))
                   => invocations[i].err # "none" /\ err # "none"
        /\ pc # "encoded" /\ err = "none" => NoRepeatedExtension(JObj(out))

\* a declared registered extension that collides with an unregistered one
C6_Witness ==
    /\ pc = "serialized"
    /\ err = "NameCollision"
    /\ doc.extensionsUsed = KHRNames
    /\ \E k \in DOMAIN node.registered : HasUnregisteredExtension(node, SerializerName(k))

----------------------------------------------------------------------------
(* Properties of the parse result, continued *)

\* C7: after a successful ParseExtensions the unregistered map holds each
\* unrecognized name once, with the raw text of its first occurrence in
\* document order.
C7_FirstOccurrenceWins ==
    pc = "parsed" /\ err = "none" =>
        \A n \in InputNames :
           ~Handled(n) =>
              /\ n \in DOMAIN node.extensions
              /\ node.extensions[n] = Serialize(FirstChild(n))

\* an unrecognized name given twice, with different contents
C7_Witness ==
    /\ pc = "parsed"
    /\ err = "none"
    /\ \E i, j \in 1..Len(InputEntries) :
          /\ i < j
          /\ InputEntries[i].name = InputEntries[j].name
          /\ InputEntries[i].value # InputEntries[j].value
          /\ InputEntries[i].name \in DOMAIN node.extensions

----------------------------------------------------------------------------
(* Properties of the codecs *)

\* the value of the text an extension serializer returned
Encoded == CreateDocumentFromString(text).val

\* C8: SerializePBRSpecGloss writes each of diffuseFactor, specularFactor and
\* glossinessFactor exactly when it differs from its default and each of the
\* two textures exactly when its textureId is set; an instance with every
\* field at its default and no extras or extensions is written as {}.
C8_DefaultElision ==
    pc = "encoded" /\ node.kind = "PBRSpecularGlossiness" /\ err = "none" =>
        /\ HasMember(Encoded, "diffuseFactor") <=> node.diffuseFactor # <<1, 1, 1, 1>>
        /\ HasMember(Encoded, "specularFactor") <=> node.specularFactor # <<1, 1, 1>>
        /\ HasMember(Encoded, "glossinessFactor") <=> node.glossinessFactor # 1
        /\ HasMember(Encoded, "diffuseTexture") <=> node.diffuseTexture.textureId # ""
        /\ HasMember(Encoded, "specularGlossinessTexture")
              <=> node.specularGlossinessTexture.textureId # ""
        /\ node = NewPBRSpecularGlossiness => text = Write(EmptyObj)

\* C8 as the specification states it: a texture is written exactly when it
\* differs from the default texture reference
C8_AsStated ==
    pc = "encoded" /\ node.kind = "PBRSpecularGlossiness" /\ err = "none" =>
        /\ HasMember(Encoded, "diffuseFactor") <=> node.diffuseFactor # <<1, 1, 1, 1>>
        /\ HasMember(Encoded, "specularFactor") <=> node.specularFactor # <<1, 1, 1>>
        /\ HasMember(Encoded, "glossinessFactor") <=> node.glossinessFactor # 1
        /\ HasMember(Encoded, "diffuseTexture") <=> node.diffuseTexture # NewTextureInfo
        /\ HasMember(Encoded, "specularGlossinessTexture")
              <=> node.specularGlossinessTexture # NewTextureInfo
        /\ node = NewPBRSpecularGlossiness => text = Write(EmptyObj)

\* the default instance written as {}
C8_Witness ==
    /\ pc = "encoded"
    /\ node = NewPBRSpecularGlossiness
    /\ err = "none"
    /\ text = Write(EmptyObj)

\* the JSON value is a non-negative integer that fits an attribute id
NonNegativeInteger(v) == v.t = "int" /\ 0 <= v.n /\ v.n <= UintMax

\* the "attributes" member given to DeserializeDracoMeshCompression
InputAttributes == MemberValue(json, "attributes")

\* C9: DeserializeDracoMeshCompression fails with SchemaViolation when
\* "attributes" is not an object, fails when an attribute value is not a
\* non-negative integer, and otherwise succeeds and stores every semantic
\* name with its integer.
C9_AttributeValidation ==
    pc = "decoded" /\ node.kind = "DracoMeshCompression" /\ HasMember(json, "attributes") =>
        IF ~IsObject(InputAttributes) THEN err = "SchemaViolation"
        ELSE IF \E i \in 1..Len(InputAttributes.m) :
                   ~NonNegativeInteger(InputAttributes.m[i].value)
        THEN err # "none"
        ELSE /\ err = "none"
             /\ DOMAIN node.attributes
                   = {InputAttributes.m[i].name : i \in 1..Len(InputAttributes.m)}
             /\ \A n \in DOMAIN node.attributes :
                   node.attributes[n]
                      = InputAttributes.m[FindFrom(InputAttributes.m, n, 1)].value.n

\* an attribute id above the int range refused, and a negative one accepted
C9_Witness ==
    /\ pc = "decoded"
    /\ node.kind = "DracoMeshCompression"
    /\ HasMember(json, "attributes")
    /\ IsObject(InputAttributes)
    /\ Len(InputAttributes.m) = 1
    /\ \/ InputAttributes.m[1].value = JInt(IntMax + 1) /\ err = "SchemaViolation"
       \/ InputAttributes.m[1].value = JInt(0 - 1) /\ err = "none"

\* C10: equals of an extension and another one is false for another variant
\* and otherwise true exactly when every field of the two is equal, the
\* extras and the unregistered extensions included.
C10_EqualsComparesAllFields ==
    pc = "compared" => (eq <=> node = rhs)

\* two Unlit instances that differ and compare equal
C10_Witness ==
    /\ pc = "compared"
    /\ node.kind = "Unlit"
    /\ rhs.kind = "Unlit"
    /\ node.extras # rhs.extras
    /\ eq

----------------------------------------------------------------------------
(* Properties of the nesting of the codecs *)

\* the call reached a codec: the registry has an entry for its name and owner
IsCodecCall(c) == HasHandler(GetKHRExtensionDeserializer, c.name, [kind |-> c.owner])

\* the codec invocations of a chain of nested Deserialize calls, outermost first
CodecCalls(chain) == SelectSeq(chain, IsCodecCall)

\* the number of members of the "extensions" objects anywhere in a JSON value
RECURSIVE ExtensionEntries(_)
RECURSIVE ExtensionEntriesFrom(_, _)
ExtensionEntriesFrom(m, i) ==
    IF i > Len(m) THEN 0
    ELSE ExtensionEntries(m[i].value)
         + (IF m[i].name = "extensions" /\ IsObject(m[i].value)
            THEN Len(m[i].value.m) ELSE 0)
         + ExtensionEntriesFrom(m, i + 1)

ExtensionEntries(v) ==
    IF v.t \in {"obj", "arr"} THEN ExtensionEntriesFrom(v.m, 1) ELSE 0

\* the outcomes of a parse
ParseOutcomes ==
    {"none", "NoHandler", "SchemaViolation", "MissingRequiredMember", "ParseError",
     "AssertionFailure"}

\* C11: with the KHR deserializer registry a parse of an entity ends, done or
\* failed, after at most one Deserialize call per entry of the "extensions"
\* objects of its input; in every chain of nested calls the codecs invoked
\* are all different, at most two, and two only as the PBRSpecularGlossiness
\* codec on a Material with the TextureTransform codec on one of its texture
\* references; a call made for a TextureTransform's own extensions reaches
\* no codec, so nothing is parsed below it.
C11_NestingBounded ==
    pc = "parsed" =>
        /\ err \in ParseOutcomes
        /\ Len(calls) <= ExtensionEntries(json)
        /\ \A i \in 1..Len(calls) :
              /\ Len(calls[i]) <= 3
              /\ \A j \in 1..Len(calls[i]) :
                    /\ j < Len(calls[i]) => IsCodecCall(calls[i][j])
                    /\ calls[i][j].owner \in Variants => ~IsCodecCall(calls[i][j])
              /\ \A j, k \in 1..Len(CodecCalls(calls[i])) :
                    CodecCalls(calls[i])[j].name = CodecCalls(calls[i])[k].name => j = k
              /\ Len(CodecCalls(calls[i])) <= 2
              /\ Len(CodecCalls(calls[i])) = 2 =>
                    CodecCalls(calls[i])
                       = <<[name |-> PBRSPECULARGLOSSINESS_NAME, owner |-> "Material"],
                           [name |-> TEXTURETRANSFORM_NAME, owner |-> "TextureInfo"]>>

\* the longest chain, with a registered name in the TextureTransform's own
\* extensions below it: the call for it fails and ends the parse
C11_Witness ==
    /\ pc = "parsed"
    /\ err = "NoHandler"
    /\ \E i \in 1..Len(calls) :
          /\ Len(calls[i]) = 3
          /\ Len(CodecCalls(calls[i])) = 2
          /\ calls[i][3] = [name |-> PBRSPECULARGLOSSINESS_NAME, owner |-> "TextureTransform"]
          /\ i = Len(calls)

\* no key of the unregistered map of the property, of its registered
\* extensions or of their texture references is a name the deserializer
\* registry has a handler for
RECURSIVE NoHandledKey(_)
NoHandledKey(property) ==
    /\ \A n \in DOMAIN property.extensions :
          ~HasHandlerName(GetKHRExtensionDeserializer, n)
    /\ \A k \in DOMAIN property.registered : NoHandledKey(property.registered[k])
    /\ property.kind = "PBRSpecularGlossiness" =>
          /\ NoHandledKey(property.diffuseTexture)
          /\ NoHandledKey(property.specularGlossinessTexture)

\* C12: after ParseExtensions with the KHR deserializer, done or failed, no
\* key of an unregistered map of the entity is a name the registry has a
\* handler for on any owner kind, and serializing the parsed entity as it is
\* never raises the name-collision error, in any invocation of
\* SerializePropertyExtensions.
C12_ParsedNeverCollides ==
    /\ pc \in {"parsed", "reserialized"} => NoHandledKey(node)
    /\ pc = "reserialized" =>
          /\ err # "NameCollision"
          /\ \A i \in 1..Len(invocations) : invocations[i].err # "NameCollision"
          /\ \A i \in 1..Len(invocations) :
                \A j \in 1..Len(invocations[i].names) :
                   ~HasUnregisteredExtension(invocations[i].owner, invocations[i].names[j])

\* a parsed entity with a typed and a raw extension, serialized
C12_Witness ==
    /\ pc = "reserialized"
    /\ DOMAIN node.registered # {}
    /\ DOMAIN node.extensions # {}
    /\ doc.extensionsUsed = KHRNames
    /\ err = "none"
    /\ Len(OutEntries) = 2

====
